---- MODULE Spec2Model ----
(***************************************************************************)
(* Model of the authentication/decision layer of Unmasking-the-Voice:      *)
(* the embedding backends (deepspeaker.py, xvectors.py, azure_sv.py), the  *)
(* three tasks (speaker_verification.py, csi.py, osi.py) and the           *)
(* orchestrator AttackFramework (attack.py).                               *)
(*                                                                         *)
(* Numbers.  Embeddings are integer vectors; a profile is the rational     *)
(* vector num/den.  A similarity is the real number sgn * sqrt(p/q), kept  *)
(* exactly as the record [sgn, p, q] in lowest terms (NaN is q = 0), so    *)
(* comparisons with a threshold are exact.  Thresholds are in tenths.      *)
(***************************************************************************)
EXTENDS Integers, Sequences, FiniteSets, TLC

(***************************************************************************)
(* Bounds of the model.                                                    *)
(***************************************************************************)
MaxSamples == 2

MaxCount == 2

(***************************************************************************)
(* Inputs: audio files, speaker ids, thresholds.                           *)
(***************************************************************************)
Files == {"u.wav", "v.wav", "w.wav", "bad.wav"}

SpeakerIds == {"A", "B"}

Tasks == {"verification", "csi", "osi"}

LocalBackends == {"deep_speaker", "xvector"}

Backends == LocalBackends \cup {"azure"}

ThresholdValues == {3, 5, 9}

KwThresholdValues == {<<>>, <<3>>}

DefaultThreshold == 5

DefaultEnrollmentFiles == 3

DefaultTestFiles == 2

DefaultAttackFiles == 1

\* the lists of at most n distinct paths
RECURSIVE SeqsUpTo(_, _)
SeqsUpTo(S, n) ==
    IF n = 0 THEN {<<>>}
    ELSE LET shorter == SeqsUpTo(S, n - 1)
             longest == {t \in shorter : Len(t) = n - 1}
         IN  shorter \cup
             UNION {{Append(s, x) : x \in {y \in S : \A i \in 1..Len(s) : s[i] # y}} :
                    s \in longest}

FileLists == SeqsUpTo(Files, MaxSamples)

(***************************************************************************)
(* Python values: None, bool, str, and the two tuple shapes.               *)
(***************************************************************************)
NaN == [sgn |-> 0, p |-> 0, q |-> 0]

PyNone == [t |-> "none", b |-> FALSE, s |-> "", score |-> NaN]

PyBool(x) == [t |-> "bool", b |-> x, s |-> "", score |-> NaN]

PyStr(x) == [t |-> "str", b |-> FALSE, s |-> x, score |-> NaN]

PyPair(x, sc) == [t |-> "pair", b |-> x, s |-> "", score |-> sc]

PyIdPair(id, sc) == [t |-> "idpair", b |-> FALSE, s |-> id, score |-> sc]

\* a float
PyFloat(sc) == [t |-> "float", s |-> "", b |-> FALSE, score |-> sc]

Truthy(v) ==
    CASE v.t = "none" -> FALSE
      [] v.t = "bool" -> v.b
      [] v.t = "str"  -> v.s # ""
      [] OTHER        -> TRUE

(***************************************************************************)
(* Exact real arithmetic on similarities.                                  *)
(***************************************************************************)
RECURSIVE GCD(_, _)
GCD(a, b) == IF b = 0 THEN a ELSE GCD(b, a % b)

Sign(x) == IF x > 0 THEN 1 ELSE IF x < 0 THEN -1 ELSE 0

\* the real number d / sqrt(n); n = 0 is the 0/0 that numpy turns into nan
Score(d, n) ==
    IF n = 0 THEN NaN
    ELSE IF d = 0 THEN [sgn |-> 0, p |-> 0, q |-> 1]
    ELSE LET g == GCD(d * d, n)
         IN  [sgn |-> Sign(d), p |-> (d * d) \div g, q |-> n \div g]

IsNaN(x) == x.q = 0

FromTenths(t) == Score(t, 100)

\* x > y on floats: any comparison with nan is False
ScoreGT(x, y) ==
    IF IsNaN(x) \/ IsNaN(y) THEN FALSE
    ELSE IF x.sgn # y.sgn THEN x.sgn > y.sgn
    ELSE IF x.sgn = 1 THEN x.p * y.q > y.p * x.q
    ELSE IF x.sgn = -1 THEN x.p * y.q < y.p * x.q
    ELSE FALSE

ScoreGE(x, y) == ScoreGT(x, y) \/ (~IsNaN(x) /\ x = y)

(***************************************************************************)
(* Embeddings.                                                             *)
(***************************************************************************)
NoEmbedding == <<>>

NoProfile == [num |-> <<>>, den |-> 0]

\* the pretrained network on the model's files; bad.wav makes it raise, and the
\* copy _prepare_audio writes of a file is heard like the file
GetEmbedding(f) ==
    CASE f \in {"u.wav", "processed_u.wav"} -> <<1, 0, 3>>
      [] f \in {"v.wav", "processed_v.wav"} -> <<3, 1, 0>>
      [] f \in {"w.wav", "processed_w.wav"} -> <<-1, 0, -3>>
      [] OTHER -> NoEmbedding

RECURSIVE Dot(_, _)
Dot(a, b) == IF a = <<>> \/ b = <<>> THEN 0 ELSE Head(a) * Head(b) + Dot(Tail(a), Tail(b))

VecAdd(a, b) == [i \in 1..Len(a) |-> a[i] + b[i]]

RECURSIVE VecSum(_)
VecSum(embs) == IF Len(embs) = 1 THEN embs[1] ELSE VecAdd(embs[1], VecSum(Tail(embs)))

\* np.mean(embeddings, axis=0)
MeanBadDivisor(embs, n) == [num |-> VecSum(embs), den |-> n]

Mean(embs) == [num |-> VecSum(embs), den |-> Len(embs)]

\* sum(a*b) / (|a| |b|) for the probe a and the profile b = num/den; the
\* positive den cancels between the dot product and the norm
CosineSimilarity(a, b) == Score(Dot(a, b.num), Dot(a, a) * Dot(b.num, b.num))

(***************************************************************************)
(* State.                                                                  *)
(***************************************************************************)
VARIABLES
    config,     \* AttackConfig
    kwargs,     \* the "threshold" entry of AttackFramework's **kwargs: <<>> or <<t>>
    built,      \* AttackFramework.__init__ returned (did not raise)
    verifier,   \* the backend object: SpeakerVerification.verifier
    auth,       \* the task object: AttackFramework.auth_system
    remote,     \* the remote service: files enrolled in the backend's profile
    call,       \* the most recent call and its arguments
    ret,        \* how that call ended, and what the backend answered inside it
    pc,         \* where run_attack stands
    run,        \* run_attack's local variables and its outcome
    sim         \* a call of a stand-alone component (a channel simulator,
                \* cosine_similarity): its arguments, locals and outcome

vars == <<config, kwargs, built, verifier, auth, remote, call, ret, pc, run, sim>>

(***************************************************************************)
(* Local-embedding backends: DeepSpeakerVerification, XVectorVerification. *)
(***************************************************************************)
IsLocal(v) == v.cls \in LocalBackends

\* the embeddings of the files whose extraction succeeded, in list order
Extracted(files) ==
    LET embs == [i \in 1..Len(files) |-> GetEmbedding(files[i])]
    IN  SelectSeq(embs, LAMBDA e : e # NoEmbedding)

\* enroll: <<returned value, the backend afterwards>>
LocalEnrollAllFiles(v, files) ==
    LET embeddings == Extracted(files)
    IN  IF files = <<>> THEN <<PyBool(FALSE), v>>
        ELSE IF Len(embeddings) > 0
        THEN <<PyBool(TRUE),
               [v EXCEPT !.enrollment_embedding = MeanBadDivisor(embeddings, Len(files))]>>
        ELSE <<PyBool(FALSE), v>>

LocalEnrollClearsOnFailure(v, files) ==
    LET embeddings == Extracted(files)
        successful_enrollments == Len(embeddings)
    IN  IF files = <<>> THEN <<PyBool(FALSE), v>>
        ELSE IF successful_enrollments > 0
        THEN <<PyBool(TRUE), [v EXCEPT !.enrollment_embedding = Mean(embeddings)]>>
        ELSE <<PyBool(FALSE), [v EXCEPT !.enrollment_embedding = NoProfile]>>

LocalEnroll(v, files) ==
    LET embeddings == Extracted(files)
        successful_enrollments == Len(embeddings)
    IN  IF files = <<>> THEN <<PyBool(FALSE), v>>
        ELSE IF successful_enrollments > 0
        THEN <<PyBool(TRUE), [v EXCEPT !.enrollment_embedding = Mean(embeddings)]>>
        ELSE <<PyBool(FALSE), v>>

\* verify: the returned (is_verified, similarity)
LocalVerifyAtOrAbove(v, probe) ==
    LET test_embedding == GetEmbedding(probe)
        similarity == CosineSimilarity(test_embedding, v.enrollment_embedding)
    IN  IF v.enrollment_embedding = NoProfile THEN PyPair(FALSE, FromTenths(0))
        ELSE IF test_embedding = NoEmbedding THEN PyPair(FALSE, FromTenths(0))
        ELSE PyPair(ScoreGE(similarity, FromTenths(v.threshold)), similarity)

LocalVerifyBelow(v, probe) ==
    LET test_embedding == GetEmbedding(probe)
        similarity == CosineSimilarity(test_embedding, v.enrollment_embedding)
    IN  IF v.enrollment_embedding = NoProfile THEN PyPair(FALSE, FromTenths(0))
        ELSE IF test_embedding = NoEmbedding THEN PyPair(FALSE, FromTenths(0))
        ELSE PyPair(ScoreGT(FromTenths(v.threshold), similarity), similarity)

LocalVerify(v, probe) ==
    LET test_embedding == GetEmbedding(probe)
        similarity == CosineSimilarity(test_embedding, v.enrollment_embedding)
    IN  IF v.enrollment_embedding = NoProfile THEN PyPair(FALSE, FromTenths(0))
        ELSE IF test_embedding = NoEmbedding THEN PyPair(FALSE, FromTenths(0))
        ELSE PyPair(ScoreGT(similarity, FromTenths(v.threshold)), similarity)

(***************************************************************************)
(* Remote-decision backend: AzureSpeakerVerification.  The service's       *)
(* answers are inputs: svc for an enroll call, resp for a verify call.     *)
(***************************************************************************)
ServiceStates == {"ok", "down", "status_down"}

VerifyResponses == {"Accept", "Reject", "error"}

NoProfileId == ""

\* _enroll_single_file: the service takes a readable file while it is up
RemoteAccepts(f, svc) == svc # "down" /\ f # "bad.wav"

\* enroll: <<returned value, the backend afterwards, the remote profile afterwards>>
AzureEnroll(v, rem, files, svc) ==
    LET created == IF v.profile_id # NoProfileId THEN v.profile_id
                   ELSE IF svc # "down" THEN "profile-1" ELSE NoProfileId
        v2 == [v EXCEPT !.profile_id = created]
        taken == {files[i] : i \in {j \in 1..Len(files) : RemoteAccepts(files[j], svc)}}
    IN  IF files = <<>> THEN <<PyNone, v, rem>>
        ELSE IF created = NoProfileId THEN <<PyNone, v2, rem>>
        ELSE IF taken # {}
        THEN <<IF svc = "ok" THEN PyStr("Enrolling") ELSE PyNone, v2, rem \cup taken>>
        ELSE <<PyNone, v2, rem>>

\* verify: a bare value, never a tuple
AzureVerify(v, resp) ==
    IF v.profile_id = NoProfileId THEN PyBool(FALSE)
    ELSE IF resp = "error" THEN PyBool(FALSE)
    ELSE PyStr(resp)

(***************************************************************************)
(* SpeakerVerification: the wrapper that picks the backend and delegates.  *)
(***************************************************************************)
\* __init__ with the "threshold" entry kw of its **kwargs
SpeakerVerificationInit(backend, kw) ==
    IF backend \in LocalBackends
    THEN [cls |-> backend,
          threshold |-> IF kw = <<>> THEN DefaultThreshold ELSE kw[1],
          enrollment_embedding |-> NoProfile]
    ELSE [cls |-> "azure", profile_id |-> NoProfileId]

\* enroll: <<returned value, the backend afterwards, the remote profile afterwards>>
SpeakerVerificationEnroll(v, rem, files, svc) ==
    IF IsLocal(v)
    THEN LET r == LocalEnroll(v, files) IN <<r[1], r[2], rem>>
    ELSE AzureEnroll(v, rem, files, svc)

SpeakerVerificationVerify(v, probe, resp) ==
    IF IsLocal(v) THEN LocalVerify(v, probe) ELSE AzureVerify(v, resp)

(***************************************************************************)
(* The roster: a Python dict speaker_id -> enrollment status, in insertion *)
(* order, as a sequence of [id, enrolled].                                 *)
(***************************************************************************)
DictHas(d, k) == \E i \in 1..Len(d) : d[i].id = k

DictSet(d, k, val) ==
    IF DictHas(d, k)
    THEN [i \in 1..Len(d) |-> IF d[i].id = k THEN [id |-> k, enrolled |-> val] ELSE d[i]]
    ELSE Append(d, [id |-> k, enrolled |-> val])

DictKeys(d) == {d[i].id : i \in 1..Len(d)}

DictIndex(d, k) == CHOOSE i \in 1..Len(d) : d[i].id = k

NoSpeaker == ""

(***************************************************************************)
(* How a call ends.                                                        *)
(***************************************************************************)
Returned(val, ans) == [kind |-> "return", err |-> "", val |-> val, ans |-> ans]

Raised(err, ans) == [kind |-> "raise", err |-> err, val |-> PyNone, ans |-> ans]

NoCall == [op |-> "none", id |-> NoSpeaker, files |-> <<>>, probe |-> ""]

NoRet == [kind |-> "none", err |-> "", val |-> PyNone, ans |-> PyNone]

\* "is_verified, similarity = <answer>": the error the unpacking raises, "" if none
UnpackError(ans) ==
    CASE ans.t = "pair" -> ""
      [] ans.t = "str" -> "ValueError"
      [] OTHER -> "TypeError"

(***************************************************************************)
(* ClosedSetIdentification and OpenSetIdentification.                      *)
(***************************************************************************)
\* the loop of ClosedSetIdentification.identify from entry i on
RECURSIVE CSIBest(_, _, _, _)
CSIBest(d, i, best, similarity) ==
    IF i > Len(d) THEN best
    ELSE IF Truthy(d[i].enrolled) /\ ScoreGT(similarity, best.score)
         THEN CSIBest(d, i + 1, PyIdPair(d[i].id, similarity), similarity)
         ELSE CSIBest(d, i + 1, best, similarity)

CSIIdentifyNoGuard(a, ans) ==
    LET best == CSIBest(a.enrolled_speakers, 1, PyIdPair(NoSpeaker, FromTenths(-10)), ans.score)
    IN  IF a.enrolled_speakers = <<>> THEN Returned(PyIdPair(NoSpeaker, FromTenths(0)), PyNone)
        ELSE IF UnpackError(ans) # "" THEN Raised(UnpackError(ans), ans)
        ELSE IF best.s = NoSpeaker
             THEN Returned(PyIdPair(a.enrolled_speakers[1].id, FromTenths(0)), ans)
             ELSE Returned(best, ans)

\* identify, given the answer ans of self.verifier.verify
CSIIdentify(a, ans) ==
    LET best == CSIBest(a.enrolled_speakers, 1, PyIdPair(NoSpeaker, FromTenths(-10)), ans.score)
    IN  IF a.enrolled_speakers = <<>> THEN Raised("ValueError", PyNone)
        ELSE IF UnpackError(ans) # "" THEN Raised(UnpackError(ans), ans)
        ELSE IF best.s = NoSpeaker
             THEN Returned(PyIdPair(a.enrolled_speakers[1].id, FromTenths(0)), ans)
             ELSE Returned(best, ans)

\* the first speaker marked enrolled, in insertion order
RECURSIVE FirstEnrolled(_, _)
FirstEnrolled(d, i) ==
    IF i > Len(d) THEN NoSpeaker
    ELSE IF Truthy(d[i].enrolled) THEN d[i].id
    ELSE FirstEnrolled(d, i + 1)

OSIIdentifyAlways(a, ans) ==
    IF a.enrolled_speakers = <<>> THEN Returned(PyIdPair(NoSpeaker, FromTenths(0)), PyNone)
    ELSE IF UnpackError(ans) # "" THEN Raised(UnpackError(ans), ans)
    ELSE Returned(PyIdPair(FirstEnrolled(a.enrolled_speakers, 1), ans.score), ans)

\* identify, given the answer ans of self.verifier.verify
OSIIdentify(a, ans) ==
    IF a.enrolled_speakers = <<>> THEN Returned(PyIdPair(NoSpeaker, FromTenths(0)), PyNone)
    ELSE IF UnpackError(ans) # "" THEN Raised(UnpackError(ans), ans)
    ELSE IF ans.b /\ ScoreGT(ans.score, FromTenths(a.threshold))
         THEN Returned(PyIdPair(FirstEnrolled(a.enrolled_speakers, 1), ans.score), ans)
         ELSE Returned(PyIdPair(NoSpeaker, ans.score), ans)

(***************************************************************************)
(* AttackFramework.__init__                                                *)
(***************************************************************************)
NotBuilt == [cls |-> "none"]

\* the task call "ClosedSetIdentification(backend=..., threshold=config.threshold,
\* **kwargs)" gets threshold twice when kwargs carries one: TypeError
Constructs(cfg, kw) == cfg.task = "verification" \/ kw = <<>>

\* profile_of is not a field of the task object: it records the speaker whose
\* samples the local backend's stored profile was computed from
AuthSystemInit(cfg, kw) ==
    IF ~Constructs(cfg, kw) THEN NotBuilt
    ELSE IF cfg.task = "verification" THEN [cls |-> "verification"]
    ELSE [cls |-> cfg.task, threshold |-> cfg.threshold, enrolled_speakers |-> <<>>,
          profile_of |-> NoSpeaker]

VerifierInit(cfg, kw) ==
    IF ~Constructs(cfg, kw) THEN NotBuilt
    ELSE IF cfg.task = "verification" THEN SpeakerVerificationInit(cfg.auth_model, kw)
    ELSE SpeakerVerificationInit(cfg.auth_model, <<cfg.threshold>>)

Cloners == {"fishspeech", "openvoice"}

Environments == {"none", "air", "line"}

\* the remote backend takes no threshold: its configurations keep the default
Configs ==
    {c \in [task : Tasks, auth_model : Backends, threshold : ThresholdValues,
            cloner : {"openvoice"}, environment : {"none"},
            num_enrollment_files : {DefaultEnrollmentFiles},
            num_test_files : {DefaultTestFiles},
            num_attack_files : {DefaultAttackFiles}] :
        c.auth_model = "azure" => c.threshold = DefaultThreshold}

\* no channel simulator is running
NoSim == [pc |-> "none"]

NoRun ==
    [target |-> NoSpeaker, enrollment_files |-> <<>>, test_files |-> <<>>,
     enrollment_success |-> PyNone, real_test_results |-> <<>>,
     attack_results |-> <<>>, cloner_refs |-> <<>>, err |-> "", msg |-> ""]

Init ==
    /\ config \in Configs
    /\ kwargs \in KwThresholdValues
    /\ built = Constructs(config, kwargs)
    /\ verifier = VerifierInit(config, kwargs)
    /\ auth = AuthSystemInit(config, kwargs)
    /\ remote = {}
    /\ call = NoCall
    /\ ret = NoRet
    /\ pc = "idle"
    /\ run = NoRun
    /\ sim = NoSim

(***************************************************************************)
(* Calls on the task object auth_system.                                   *)
(***************************************************************************)
ServiceInputs == IF IsLocal(verifier) THEN {"ok"} ELSE ServiceStates

ResponseInputs == IF IsLocal(verifier) THEN {"Accept"} ELSE VerifyResponses

\* ClosedSetIdentification.enroll_speaker / OpenSetIdentification.enroll_speaker
EnrollSpeaker(id, files, svc) ==
    /\ built
    /\ auth.cls \in {"csi", "osi"}
    /\ call' = [op |-> "enroll_speaker", id |-> id, files |-> files, probe |-> ""]
    /\ LET r == SpeakerVerificationEnroll(verifier, remote, files, svc)
       IN  /\ verifier' = r[2]
           /\ remote' = r[3]
           /\ auth' = [auth EXCEPT !.enrolled_speakers = DictSet(@, id, r[1]),
                                   !.profile_of = IF IsLocal(verifier) /\ Truthy(r[1]) THEN id ELSE @]
           /\ ret' = Returned(r[1], PyNone)
    /\ UNCHANGED <<sim, config, kwargs, built, pc, run>>

\* SpeakerVerification.enroll(wav_files)
Enroll(files, svc) ==
    /\ built
    /\ auth.cls = "verification"
    /\ call' = [op |-> "enroll", id |-> NoSpeaker, files |-> files, probe |-> ""]
    /\ LET r == SpeakerVerificationEnroll(verifier, remote, files, svc)
       IN  /\ verifier' = r[2]
           /\ remote' = r[3]
           /\ ret' = Returned(r[1], PyNone)
    /\ UNCHANGED <<sim, config, kwargs, built, auth, pc, run>>

\* SpeakerVerification.verify(wav_file_path)
Verify(probe, resp) ==
    /\ built
    /\ auth.cls = "verification"
    /\ call' = [op |-> "verify", id |-> NoSpeaker, files |-> <<>>, probe |-> probe]
    /\ LET ans == SpeakerVerificationVerify(verifier, probe, resp)
       IN  ret' = Returned(ans, ans)
    /\ UNCHANGED <<sim, config, kwargs, built, verifier, auth, remote, pc, run>>

\* ClosedSetIdentification.identify / OpenSetIdentification.identify
Identify(probe, resp) ==
    /\ built
    /\ auth.cls \in {"csi", "osi"}
    /\ call' = [op |-> "identify", id |-> NoSpeaker, files |-> <<>>, probe |-> probe]
    /\ LET ans == SpeakerVerificationVerify(verifier, probe, resp)
       IN  ret' = IF auth.cls = "csi" THEN CSIIdentify(auth, ans) ELSE OSIIdentify(auth, ans)
    /\ UNCHANGED <<sim, config, kwargs, built, verifier, auth, remote, pc, run>>

Next ==
    \/ \E id \in SpeakerIds, files \in FileLists, svc \in ServiceInputs :
            EnrollSpeaker(id, files, svc)
    \/ \E files \in FileLists, svc \in ServiceInputs : Enroll(files, svc)
    \/ \E probe \in Files, resp \in ResponseInputs : Verify(probe, resp)
    \/ \E probe \in Files, resp \in ResponseInputs : Identify(probe, resp)

Spec == Init /\ [][Next]_vars

(***************************************************************************)
(* AttackFramework.run_attack, one step per statement group.               *)
(***************************************************************************)
\* DataLoader.get_files(): speaker id -> file list; "C" is in no dataset
Dataset ==
    [A |-> <<"u.wav", "v.wav", "w.wav", "bad.wav">>,
     B |-> <<"bad.wav", "u.wav">>]

DatasetKeys == {"A", "B"}

DatasetFiles(id) == IF id = "A" THEN Dataset.A ELSE Dataset.B

TargetIds == {"A", "B", "C"}

\* the counts: every small combination, and the defaults of AttackConfig
AttackConfigs ==
    {c \in [task : Tasks, auth_model : Backends, threshold : ThresholdValues,
            cloner : Cloners, environment : Environments,
            num_enrollment_files : 1..MaxCount \cup {DefaultEnrollmentFiles},
            num_test_files : 1..MaxCount \cup {DefaultTestFiles},
            num_attack_files : 1..MaxCount] :
        /\ c.auth_model = "azure" => c.threshold = DefaultThreshold
        /\ \/ c.num_enrollment_files <= MaxCount /\ c.num_test_files <= MaxCount
           \/ /\ c.num_enrollment_files = DefaultEnrollmentFiles
              /\ c.num_test_files = DefaultTestFiles}

InitAttack ==
    /\ config \in AttackConfigs
    /\ kwargs \in KwThresholdValues
    /\ built = Constructs(config, kwargs)
    /\ verifier = VerifierInit(config, kwargs)
    /\ auth = AuthSystemInit(config, kwargs)
    /\ remote = {}
    /\ call = NoCall
    /\ ret = NoRet
    /\ pc = "idle"
    /\ run = NoRun
    /\ sim = NoSim

\* _prepare_audio: the error it raises ("" if none); the degraded copy keeps the
\* name of the file it was made from, and librosa cannot load bad.wav
PrepareAudioError(f) ==
    IF config.environment # "none" /\ f = "bad.wav" THEN "LoadError" ELSE ""

\* _prepare_audio: the path it returns
PrepareAudio(f) == IF config.environment = "none" THEN f ELSE "processed_" \o f

\* self.auth_system.verify / self.auth_system.identify on the prepared file
Decide(probe, resp) ==
    LET ans == SpeakerVerificationVerify(verifier, probe, resp)
    IN  IF config.task = "verification" THEN
            IF UnpackError(ans) # "" THEN Raised(UnpackError(ans), ans) ELSE Returned(ans, ans)
        ELSE IF auth.cls = "csi" THEN CSIIdentify(auth, ans)
        ELSE OSIIdentify(auth, ans)

\* the messages of the two ValueErrors of lines 136 and 140
SpeakerNotFound == "Speaker not found in dataset"

NotEnoughFiles == "Not enough files for speaker"

RunStartAtMost(target) ==
    /\ built
    /\ pc = "idle"
    /\ LET n_e == config.num_enrollment_files
           n_t == config.num_test_files
       IN  IF target \notin DatasetKeys
           THEN /\ pc' = "raised"
                /\ run' = [run EXCEPT !.target = target, !.err = "ValueError",
                                      !.msg = SpeakerNotFound]
           ELSE IF Len(DatasetFiles(target)) <= n_e + n_t
           THEN /\ pc' = "raised"
                /\ run' = [run EXCEPT !.target = target, !.err = "ValueError",
                                      !.msg = NotEnoughFiles]
           ELSE /\ pc' = "enroll"
                /\ run' = [run EXCEPT
                       !.target = target,
                       !.enrollment_files = SubSeq(DatasetFiles(target), 1, n_e),
                       !.test_files = SubSeq(DatasetFiles(target), n_e + 1, n_e + n_t)]
    /\ UNCHANGED <<sim, config, kwargs, built, verifier, auth, remote, call, ret>>

RunStartOverlap(target) ==
    /\ built
    /\ pc = "idle"
    /\ LET n_e == config.num_enrollment_files
           n_t == config.num_test_files
       IN  IF target \notin DatasetKeys
           THEN /\ pc' = "raised"
                /\ run' = [run EXCEPT !.target = target, !.err = "ValueError",
                                      !.msg = SpeakerNotFound]
           ELSE IF Len(DatasetFiles(target)) < n_e + n_t
           THEN /\ pc' = "raised"
                /\ run' = [run EXCEPT !.target = target, !.err = "ValueError",
                                      !.msg = NotEnoughFiles]
           ELSE /\ pc' = "enroll"
                /\ run' = [run EXCEPT
                       !.target = target,
                       !.enrollment_files = SubSeq(DatasetFiles(target), 1, n_e),
                       !.test_files = SubSeq(DatasetFiles(target), n_e, n_e + n_t - 1)]
    /\ UNCHANGED <<sim, config, kwargs, built, verifier, auth, remote, call, ret>>

\* lines 133-145: look the speaker up and split the files
RunStart(target) ==
    /\ built
    /\ pc = "idle"
    /\ LET n_e == config.num_enrollment_files
           n_t == config.num_test_files
       IN  IF target \notin DatasetKeys
           THEN /\ pc' = "raised"
                /\ run' = [run EXCEPT !.target = target, !.err = "ValueError",
                                      !.msg = SpeakerNotFound]
           ELSE IF Len(DatasetFiles(target)) < n_e + n_t
           THEN /\ pc' = "raised"
                /\ run' = [run EXCEPT !.target = target, !.err = "ValueError",
                                      !.msg = NotEnoughFiles]
           ELSE /\ pc' = "enroll"
                /\ run' = [run EXCEPT
                       !.target = target,
                       !.enrollment_files = SubSeq(DatasetFiles(target), 1, n_e),
                       !.test_files = SubSeq(DatasetFiles(target), n_e + 1, n_e + n_t)]
    /\ UNCHANGED <<sim, config, kwargs, built, verifier, auth, remote, call, ret>>

\* lines 147-157: self.auth_system.enroll_speaker(...); SpeakerVerification has
\* no attribute enroll_speaker
RunEnroll(svc) ==
    /\ pc = "enroll"
    /\ call' = [op |-> "enroll_speaker", id |-> run.target,
                files |-> run.enrollment_files, probe |-> ""]
    /\ IF config.task = "verification"
       THEN /\ ret' = Raised("AttributeError", PyNone)
            /\ pc' = "raised"
            /\ run' = [run EXCEPT !.err = "AttributeError"]
            /\ UNCHANGED <<verifier, auth, remote>>
       ELSE LET r == SpeakerVerificationEnroll(verifier, remote, run.enrollment_files, svc)
            IN  /\ verifier' = r[2]
                /\ remote' = r[3]
                /\ auth' = [auth EXCEPT !.enrolled_speakers = DictSet(@, run.target, r[1]),
                                        !.profile_of = IF IsLocal(verifier) /\ Truthy(r[1]) THEN run.target ELSE @]
                /\ ret' = Returned(r[1], PyNone)
                /\ pc' = "baseline"
                /\ run' = [run EXCEPT !.enrollment_success = r[1]]
    /\ UNCHANGED <<sim, config, kwargs, built>>

RunBaselineTagsProcessed(resp) ==
    /\ pc = "baseline"
    /\ LET i == Len(run.real_test_results) + 1
           test_file == run.test_files[i]
           processed_file == PrepareAudio(test_file)
           outcome == Decide(processed_file, resp)
       IN  IF PrepareAudioError(test_file) # ""
           THEN /\ pc' = "raised"
                /\ run' = [run EXCEPT !.err = PrepareAudioError(test_file)]
                /\ UNCHANGED <<call, ret>>
           ELSE /\ call' = [op |-> IF config.task = "verification" THEN "verify" ELSE "identify",
                            id |-> NoSpeaker, files |-> <<>>, probe |-> processed_file]
                /\ ret' = outcome
                /\ IF outcome.kind = "raise"
                   THEN /\ pc' = "raised"
                        /\ run' = [run EXCEPT !.err = outcome.err]
                   ELSE /\ pc' = IF i = Len(run.test_files) THEN "attack" ELSE "baseline"
                        /\ run' = [run EXCEPT !.real_test_results =
                                      Append(@, [file |-> processed_file, val |-> outcome.val])]
    /\ UNCHANGED <<sim, config, kwargs, built, verifier, auth, remote>>

\* lines 159-175: one iteration of the loop over test_files
RunBaseline(resp) ==
    /\ pc = "baseline"
    /\ LET i == Len(run.real_test_results) + 1
           test_file == run.test_files[i]
           processed_file == PrepareAudio(test_file)
           outcome == Decide(processed_file, resp)
       IN  IF PrepareAudioError(test_file) # ""
           THEN /\ pc' = "raised"
                /\ run' = [run EXCEPT !.err = PrepareAudioError(test_file)]
                /\ UNCHANGED <<call, ret>>
           ELSE /\ call' = [op |-> IF config.task = "verification" THEN "verify" ELSE "identify",
                            id |-> NoSpeaker, files |-> <<>>, probe |-> processed_file]
                /\ ret' = outcome
                /\ IF outcome.kind = "raise"
                   THEN /\ pc' = "raised"
                        /\ run' = [run EXCEPT !.err = outcome.err]
                   ELSE /\ pc' = IF i = Len(run.test_files) THEN "attack" ELSE "baseline"
                        /\ run' = [run EXCEPT !.real_test_results =
                                      Append(@, [file |-> test_file, val |-> outcome.val])]
    /\ UNCHANGED <<sim, config, kwargs, built, verifier, auth, remote>>

\* what the cloner is given as voice reference
ClonerReference ==
    IF config.cloner = "fishspeech" THEN run.enrollment_files
    ELSE <<run.enrollment_files[1]>>

\* lines 178-216: one attack iteration; the cloning engine is an input: it fails,
\* or writes audio that the backend hears like the file `cloned`
RunAttack(cloned, cloneOk, resp) ==
    /\ pc = "attack"
    /\ Len(run.attack_results) < config.num_attack_files
    /\ LET processed_attack == PrepareAudio(cloned)
           outcome == Decide(processed_attack, resp)
           refs == Append(run.cloner_refs, ClonerReference)
       IN  IF ~cloneOk
           THEN /\ pc' = "raised"
                /\ run' = [run EXCEPT !.err = "CloningError", !.cloner_refs = refs]
                /\ UNCHANGED <<call, ret>>
           ELSE IF PrepareAudioError(cloned) # ""
           THEN /\ pc' = "raised"
                /\ run' = [run EXCEPT !.err = PrepareAudioError(cloned), !.cloner_refs = refs]
                /\ UNCHANGED <<call, ret>>
           ELSE /\ call' = [op |-> IF config.task = "verification" THEN "verify" ELSE "identify",
                            id |-> NoSpeaker, files |-> <<>>, probe |-> processed_attack]
                /\ ret' = outcome
                /\ IF outcome.kind = "raise"
                   THEN /\ pc' = "raised"
                        /\ run' = [run EXCEPT !.err = outcome.err, !.cloner_refs = refs]
                   ELSE /\ pc' = "attack"
                        /\ run' = [run EXCEPT
                               !.cloner_refs = refs,
                               !.attack_results =
                                   Append(@, [file |-> "attack.wav", val |-> outcome.val])]
    /\ UNCHANGED <<sim, config, kwargs, built, verifier, auth, remote>>

\* line 218: return results
RunReturn ==
    /\ pc = "attack"
    /\ Len(run.attack_results) = config.num_attack_files
    /\ pc' = "done"
    /\ UNCHANGED <<sim, config, kwargs, built, verifier, auth, remote, call, ret, run>>

NextAttack ==
    \/ \E target \in TargetIds : RunStart(target)
    \/ \E svc \in ServiceInputs : RunEnroll(svc)
    \/ \E resp \in ResponseInputs : RunBaseline(resp)
    \/ \E cloned \in Files, cloneOk \in BOOLEAN, resp \in ResponseInputs :
            RunAttack(cloned, cloneOk, resp)
    \/ RunReturn

SpecAttack == InitAttack /\ [][NextAttack]_vars

(***************************************************************************)
(* AirEnvironmentSimulator.simulate(audio, sr), one step per stage.  A     *)
(* buffer is modelled by its number of samples; the impulse response also  *)
(* by the positions of its taps.                                           *)
(***************************************************************************)
\* the longest input buffer
MaxAudioLen == 8

\* sample rates of the input, in Hz
SampleRates == {4000, 8000, 8001, 11025, 16000, 22050, 32000, 44100, 48000, 96000}

\* the default reverb_delays, in milliseconds
ReverbDelaysMs == <<30, 60, 100>>

\* the default lowpass_freq, in Hz
LowpassFreq == 4000

\* int(delay * sr)
DelaySamples(ms, sr) == (ms * sr) \div 1000

\* len(np.convolve(a, v)) for non-empty a and v
ConvolveLen(n, m) == n + m - 1

\* len(x[:k])
SliceLen(len, k) == IF k < len THEN k ELSE len

\* scipy.signal.butter(..., Wn, btype='low', fs=sr): it wants 0 < Wn < fs/2
ButterAccepts(wn, fs) == 0 < 2 * wn /\ 2 * wn < fs

AirStart(n, sr) ==
    [pc |-> "room_ir", n |-> n, sr |-> sr, room_ir |-> 0, taps |-> {},
     reverb |-> 0, noisy |-> 0, degraded |-> 0, err |-> ""]

InitAir ==
    /\ config = [task |-> "verification", auth_model |-> "deep_speaker",
                 threshold |-> DefaultThreshold, cloner |-> "openvoice",
                 environment |-> "air",
                 num_enrollment_files |-> DefaultEnrollmentFiles,
                 num_test_files |-> DefaultTestFiles,
                 num_attack_files |-> DefaultAttackFiles]
    /\ kwargs = <<>>
    /\ built = Constructs(config, kwargs)
    /\ verifier = VerifierInit(config, kwargs)
    /\ auth = AuthSystemInit(config, kwargs)
    /\ remote = {}
    /\ call = NoCall
    /\ ret = NoRet
    /\ pc = "idle"
    /\ run = NoRun
    /\ \E n \in 0..MaxAudioLen, sr \in SampleRates : sim = AirStart(n, sr)

\* lines 43-49: the one-second impulse response and its reflections
AirRoomIR ==
    /\ sim.pc = "room_ir"
    /\ LET idx == {DelaySamples(ReverbDelaysMs[i], sim.sr) : i \in 1..Len(ReverbDelaysMs)}
       IN  IF \E k \in idx \cup {0} : k >= sim.sr
           THEN sim' = [sim EXCEPT !.pc = "raised", !.err = "IndexError"]
           ELSE sim' = [sim EXCEPT !.pc = "reverb", !.room_ir = sim.sr,
                                   !.taps = idx \cup {0}]
    /\ UNCHANGED <<config, kwargs, built, verifier, auth, remote, call, ret, pc, run>>

\* line 51: np.convolve(audio, room_ir)[:len(audio)]
AirReverb ==
    /\ sim.pc = "reverb"
    /\ IF sim.n = 0 \/ sim.room_ir = 0
       THEN sim' = [sim EXCEPT !.pc = "raised", !.err = "ValueError"]
       ELSE sim' = [sim EXCEPT !.pc = "noise",
                        !.reverb = SliceLen(ConvolveLen(sim.n, sim.room_ir), sim.n)]
    /\ UNCHANGED <<config, kwargs, built, verifier, auth, remote, call, ret, pc, run>>

\* lines 54-55: noise of len(audio) samples added to reverb; arrays of different
\* lengths add only if one of them has a single sample
AirNoise ==
    /\ sim.pc = "noise"
    /\ IF sim.reverb = sim.n \/ sim.n = 1
       THEN sim' = [sim EXCEPT !.pc = "filter", !.noisy = sim.reverb]
       ELSE IF sim.reverb = 1
       THEN sim' = [sim EXCEPT !.pc = "filter", !.noisy = sim.n]
       ELSE sim' = [sim EXCEPT !.pc = "raised", !.err = "ValueError"]
    /\ UNCHANGED <<config, kwargs, built, verifier, auth, remote, call, ret, pc, run>>

\* lines 58-67: the lowpass filter; sosfilt answers one sample per sample
AirFilter ==
    /\ sim.pc = "filter"
    /\ IF ButterAccepts(LowpassFreq, sim.sr)
       THEN sim' = [sim EXCEPT !.pc = "done", !.degraded = sim.noisy]
       ELSE sim' = [sim EXCEPT !.pc = "raised", !.err = "ValueError"]
    /\ UNCHANGED <<config, kwargs, built, verifier, auth, remote, call, ret, pc, run>>

NextAir == AirRoomIR \/ AirReverb \/ AirNoise \/ AirFilter

SpecAir == InitAir /\ [][NextAir]_vars

(***************************************************************************)
(* EnvironmentSimulator: the registry self.environments, add_environment   *)
(* and simulate_environment(audio, environment) on an array of n samples,  *)
(* one step per stage.  None is 0 for a rate and <<>> for a frequency pair.*)
(***************************************************************************)
\* EnvironmentConfig(name, sample_rate, down_sample_rate, bandpass_freqs, filter_order)
EnvironmentConfig(name, sample_rate, down_sample_rate, bandpass_freqs, filter_order) ==
    [name |-> name, sample_rate |-> sample_rate, down_sample_rate |-> down_sample_rate,
     bandpass_freqs |-> bandpass_freqs, filter_order |-> filter_order]

\* the predefined configurations of __init__
PhoneConfig == EnvironmentConfig("phone", 16000, 8000, <<300, 3400>>, 10)

VoipConfig == EnvironmentConfig("voip", 16000, 8000, <<300, 3400>>, 10)

\* self.environments after __init__: name -> configuration
PredefinedEnvironments == [k \in {"phone", "voip"} |-> IF k = "phone" THEN PhoneConfig ELSE VoipConfig]

\* names a caller may pass: the predefined ones, one to register, one never registered
EnvironmentNames == {"phone", "voip", "studio", "radio"}

\* configurations a caller may register
AddedConfigs ==
    {EnvironmentConfig(name, 16000, down, band, 10) :
        name \in {"phone", "studio"}, down \in {0, 8000}, band \in {<<>>, <<300, 3400>>}}

NoConfig == EnvironmentConfig("", 0, 0, <<>>, 0)

\* librosa.resample: the output holds ceil(n * target_sr / orig_sr) samples
ResampleLen(n, orig_sr, target_sr) == (n * target_sr + orig_sr - 1) \div orig_sr

\* scipy.signal.butter(order, freqs, btype='band', fs=sr): 0 < low < high < fs/2
ButterBandAccepts(freqs, fs) ==
    /\ 0 < freqs[1]
    /\ freqs[1] < freqs[2]
    /\ 2 * freqs[2] < fs

LineIdle(environments) ==
    [pc |-> "idle", environments |-> environments, op |-> "none", name |-> "",
     n |-> 0, config |-> NoConfig, sr |-> 0, audio_up |-> 0, processed_audio |-> 0,
     err |-> ""]

InitLine ==
    /\ config = [task |-> "verification", auth_model |-> "deep_speaker",
                 threshold |-> DefaultThreshold, cloner |-> "openvoice",
                 environment |-> "line",
                 num_enrollment_files |-> DefaultEnrollmentFiles,
                 num_test_files |-> DefaultTestFiles,
                 num_attack_files |-> DefaultAttackFiles]
    /\ kwargs = <<>>
    /\ built = Constructs(config, kwargs)
    /\ verifier = VerifierInit(config, kwargs)
    /\ auth = AuthSystemInit(config, kwargs)
    /\ remote = {}
    /\ call = NoCall
    /\ ret = NoRet
    /\ pc = "idle"
    /\ run = NoRun
    /\ sim = LineIdle(PredefinedEnvironments)

\* no simulate_environment call is under way
LineAtRest == sim.pc \in {"idle", "done", "raised"}

\* self.environments[config.name] = config
DictPut(d, k, v) == [x \in DOMAIN d \cup {k} |-> IF x = k THEN v ELSE d[x]]

AddEnvironmentKeepsFirst(cfg) ==
    /\ LineAtRest
    /\ sim' = [LineIdle(IF cfg.name \in DOMAIN sim.environments THEN sim.environments
                        ELSE DictPut(sim.environments, cfg.name, cfg))
                  EXCEPT !.op = "add_environment", !.name = cfg.name, !.config = cfg]
    /\ UNCHANGED <<config, kwargs, built, verifier, auth, remote, call, ret, pc, run>>

\* lines 160-167
AddEnvironment(cfg) ==
    /\ LineAtRest
    /\ sim' = [LineIdle(DictPut(sim.environments, cfg.name, cfg))
                  EXCEPT !.op = "add_environment", !.name = cfg.name, !.config = cfg]
    /\ UNCHANGED <<config, kwargs, built, verifier, auth, remote, call, ret, pc, run>>

\* lines 110-123: resolve the name; the audio is an array, so sr = config.sample_rate
LineLookup(environment, n) ==
    /\ LineAtRest
    /\ IF environment \notin DOMAIN sim.environments
       THEN sim' = [LineIdle(sim.environments) EXCEPT
                       !.pc = "raised", !.op = "simulate_environment",
                       !.name = environment, !.n = n, !.err = "ValueError"]
       ELSE sim' = [LineIdle(sim.environments) EXCEPT
                       !.pc = "resample", !.op = "simulate_environment",
                       !.name = environment, !.n = n,
                       !.config = sim.environments[environment],
                       !.sr = sim.environments[environment].sample_rate]
    /\ UNCHANGED <<config, kwargs, built, verifier, auth, remote, call, ret, pc, run>>

\* lines 125-138: down to down_sample_rate and back up to sr
LineResample ==
    /\ sim.pc = "resample"
    /\ LET audio_down == ResampleLen(sim.n, sim.sr, sim.config.down_sample_rate)
           audio_up == ResampleLen(audio_down, sim.config.down_sample_rate, sim.sr)
       IN  IF sim.config.down_sample_rate # 0
           THEN sim' = [sim EXCEPT !.pc = "filter", !.audio_up = audio_up]
           ELSE sim' = [sim EXCEPT !.pc = "filter", !.audio_up = sim.n]
    /\ UNCHANGED <<config, kwargs, built, verifier, auth, remote, call, ret, pc, run>>

\* lines 140-158: the band-pass filter (sosfilt answers one sample per sample),
\* then return with no output_filename
LineFilter ==
    /\ sim.pc = "filter"
    /\ IF sim.config.bandpass_freqs = <<>>
       THEN sim' = [sim EXCEPT !.pc = "done", !.processed_audio = sim.audio_up]
       ELSE IF ButterBandAccepts(sim.config.bandpass_freqs, sim.sr)
       THEN sim' = [sim EXCEPT !.pc = "done", !.processed_audio = sim.audio_up]
       ELSE sim' = [sim EXCEPT !.pc = "raised", !.err = "ValueError"]
    /\ UNCHANGED <<config, kwargs, built, verifier, auth, remote, call, ret, pc, run>>

NextLine ==
    \/ \E cfg \in AddedConfigs : AddEnvironment(cfg)
    \/ \E environment \in EnvironmentNames, n \in 1..MaxAudioLen : LineLookup(environment, n)
    \/ LineResample
    \/ LineFilter

SpecLine == InitLine /\ [][NextLine]_vars

(***************************************************************************)
(* utils.cosine_similarity(a, b) on two row vectors (arrays of shape       *)
(* (1, d), the shape the embedding networks answer with).                  *)
(***************************************************************************)
\* the longest vector
MaxDim == 3

\* the entries of the vectors
Entries == {-1, 0, 1}

RowVectors == UNION {[1..d -> Entries] : d \in 1..MaxDim}

\* numpy broadcasting of a row of length 1 against a row of length n
Broadcast(a, n) == IF Len(a) = 1 THEN [i \in 1..n |-> a[1]] ELSE a

\* a * b is defined when the lengths agree or one of them is 1
Broadcastable(a, b) == Len(a) = Len(b) \/ Len(a) = 1 \/ Len(b) = 1

\* lines 15-19: np.sum(a * b, axis=1) / (a_norm.flatten() * b_norm.flatten())
cosine_similarity(a, b) ==
    LET n == IF Len(a) > Len(b) THEN Len(a) ELSE Len(b)
    IN  IF ~Broadcastable(a, b) THEN Raised("ValueError", PyNone)
        ELSE Returned(PyFloat(Score(Dot(Broadcast(a, n), Broadcast(b, n)),
                                    Dot(a, a) * Dot(b, b))), PyNone)

InitCosine ==
    /\ config = [task |-> "verification", auth_model |-> "deep_speaker",
                 threshold |-> DefaultThreshold, cloner |-> "openvoice",
                 environment |-> "none",
                 num_enrollment_files |-> DefaultEnrollmentFiles,
                 num_test_files |-> DefaultTestFiles,
                 num_attack_files |-> DefaultAttackFiles]
    /\ kwargs = <<>>
    /\ built = Constructs(config, kwargs)
    /\ verifier = VerifierInit(config, kwargs)
    /\ auth = AuthSystemInit(config, kwargs)
    /\ remote = {}
    /\ call = NoCall
    /\ ret = NoRet
    /\ pc = "idle"
    /\ run = NoRun
    /\ \E a \in RowVectors, b \in RowVectors : sim = [pc |-> "call", a |-> a, b |-> b]

\* the call cosine_similarity(sim.a, sim.b)
CosineCall ==
    /\ sim.pc = "call"
    /\ sim' = [sim EXCEPT !.pc = "ended"]
    /\ call' = [NoCall EXCEPT !.op = "cosine_similarity"]
    /\ ret' = cosine_similarity(sim.a, sim.b)
    /\ UNCHANGED <<config, kwargs, built, verifier, auth, remote, pc, run>>

NextCosine == CosineCall

SpecCosine == InitCosine /\ [][NextCosine]_vars

(***************************************************************************)
(* Properties.                                                             *)
(***************************************************************************)
\* the call in the state asked the backend to verify call.probe
AskedBackend ==
    \/ call.op = "verify"
    \/ call.op = "identify" /\ auth.enrolled_speakers # <<>>

\* ... and the backend is local, holds a profile and extracted the probe's embedding
LocalDecision ==
    /\ built
    /\ IsLocal(verifier)
    /\ AskedBackend
    /\ verifier.enrollment_embedding # NoProfile
    /\ GetEmbedding(call.probe) # NoEmbedding

ProbeSimilarity == CosineSimilarity(GetEmbedding(call.probe), verifier.enrollment_embedding)

\* C1: a local backend that holds a profile and extracted the probe's embedding
\* answers verify with accepted = (score > threshold), strictly: a score equal to
\* the threshold is rejected; the second component is that same score, and
\* SpeakerVerification.verify hands the answer on unchanged.
C1_VerifyDecision ==
    LocalDecision =>
        /\ ret.ans.t = "pair"
        /\ ret.ans.score = ProbeSimilarity
        /\ ret.ans.b = ScoreGT(ProbeSimilarity, FromTenths(verifier.threshold))
        /\ (ProbeSimilarity = FromTenths(verifier.threshold) => ~ret.ans.b)
        /\ (call.op = "verify" => ret = Returned(ret.ans, ret.ans))

C1_Witness ==
    /\ LocalDecision
    /\ call.op = "verify"
    /\ ProbeSimilarity = FromTenths(verifier.threshold)
    /\ ret.val = PyPair(FALSE, FromTenths(verifier.threshold))

OSIIdentified == auth.cls = "osi" /\ call.op = "identify" /\ auth.enrolled_speakers # <<>>

C3_CSIAlwaysReturnsKey ==
    (auth.cls = "csi" /\ call.op = "identify" /\ auth.enrolled_speakers # <<>>) =>
        /\ ret.kind = "return"
        /\ ret.val.t = "idpair"
        /\ ret.val.s \in DictKeys(auth.enrolled_speakers)

\* no sample of the call yielded a usable embedding
NoUsableSample == Extracted(call.files) = <<>>

\* C4: enroll_speaker(id, samples) in which no sample yields a usable embedding
\* fails with EnrollmentError, and afterwards the roster holds id recorded as
\* unenrolled.
C4_EnrollmentErrorRaised ==
    (call.op = "enroll_speaker" /\ IsLocal(verifier) /\ NoUsableSample) =>
        /\ ret = Raised("EnrollmentError", PyNone)
        /\ DictHas(auth.enrolled_speakers, call.id)
        /\ ~Truthy(auth.enrolled_speakers[DictIndex(auth.enrolled_speakers, call.id)].enrolled)

\* the positions of the call's files whose embedding was extracted
UsablePositions == {i \in 1..Len(call.files) : GetEmbedding(call.files[i]) # NoEmbedding}

RECURSIVE SumOver(_, _)
SumOver(S, k) ==
    IF S = {} THEN 0
    ELSE LET i == CHOOSE j \in S : TRUE
         IN  GetEmbedding(call.files[i])[k] + SumOver(S \ {i}, k)

LocalEnrolled ==
    /\ call.op \in {"enroll", "enroll_speaker"}
    /\ IsLocal(verifier)
    /\ UsablePositions # {}

\* C5: on a local backend, enroll stores the arithmetic mean of the embeddings of
\* exactly the samples whose extraction succeeded (failed samples are in neither
\* the sum nor the divisor), and every permutation of the sample list stores the
\* same profile.
C5_MeanOfUsableSamples ==
    LocalEnrolled =>
        LET profile == verifier.enrollment_embedding
            n == Len(call.files)
        IN  /\ profile.den = Cardinality(UsablePositions)
            /\ Len(profile.num) = 3
            /\ \A k \in 1..3 : profile.num[k] = SumOver(UsablePositions, k)
            /\ \A p \in Permutations(1..n) :
                   LocalEnroll(verifier, [i \in 1..n |-> call.files[p[i]]])[2] = verifier

C5_Witness ==
    /\ LocalEnrolled
    /\ Cardinality(UsablePositions) < Len(call.files)
    /\ call.files[1] = "bad.wav"
    /\ verifier.enrollment_embedding = [num |-> <<3, 1, 0>>, den |-> 1]

Range(f) == {f[i] : i \in 1..Len(f)}

\* C6: re-enrollment replaces the profile wholesale for every backend variant:
\* after a successful enroll the profile is determined by the samples of that
\* call alone.
C6_ProfileReplacedWholesale ==
    (call.op \in {"enroll", "enroll_speaker"} /\ Truthy(ret.val)) =>
        IF IsLocal(verifier)
        THEN verifier.enrollment_embedding = Mean(Extracted(call.files))
        ELSE remote \subseteq Range(call.files)

\* C7: the decision of a task built by AttackFramework with a local backend
\* thresholds at AttackConfig.threshold: accepted iff score > config.threshold.
C7_ThresholdFromConfig ==
    (LocalDecision /\ kwargs = <<>>) =>
        ret.ans.b = ScoreGT(ProbeSimilarity, FromTenths(config.threshold))

\* C9: every backend answers verify with a pair (accepted, score), so verify
\* returns a pair and identify never fails on the shape of the answer.
C9_VerifyAnswersPair ==
    (built /\ AskedBackend) =>
        /\ ret.ans.t = "pair"
        /\ ret.kind = "return"

\* C10: ClosedSetIdentification.identify on an empty roster never returns: it
\* raises.
C10_CSIEmptyRosterRaises ==
    (auth.cls = "csi" /\ call.op = "identify" /\ auth.enrolled_speakers = <<>>) =>
        ret = Raised("ValueError", PyNone)

C10_Witness ==
    /\ auth.cls = "csi"
    /\ call.op = "identify"
    /\ auth.enrolled_speakers = <<>>
    /\ ret.kind = "raise"

\* C8: every task kind provides the enrollment operation run_attack calls: the
\* enrollment step returns and the run goes on to the baseline samples.
C8_EnrollmentOperationProvided ==
    call.op = "enroll_speaker" => (ret.kind = "return" /\ pc # "raised")

\* C11: OpenSetIdentification.identify on an empty roster raises an error instead
\* of returning a result.
C11_OSIEmptyRosterRaises ==
    (auth.cls = "osi" /\ call.op = "identify" /\ auth.enrolled_speakers = <<>>) =>
        ret.kind = "raise"

\* no enrollment has touched the backend: it is as __init__ left it
NeverEnrolled == built /\ verifier = VerifierInit(config, kwargs) /\ remote = {}

\* C12: SpeakerVerification.verify, when no enrollment has ever been made, fails
\* with an error rather than returning a reject decision with a score.
C12_VerifyBeforeEnrollRaises ==
    (auth.cls = "verification" /\ call.op = "verify" /\ NeverEnrolled) =>
        ret.kind = "raise"

\* C13: run_attack raises the speaker-not-found error when the target is absent
\* from the dataset mapping, raises the not-enough-files error exactly when the
\* speaker is present with fewer than num_enrollment_files + num_test_files
\* files (2 files with counts 3 and 2 do), and with at least that many files
\* raises neither and goes on to enrollment.
C13_LookupErrors ==
    [][pc = "idle" =>
        LET t == run'.target
            n == config.num_enrollment_files + config.num_test_files
            notFound == pc' = "raised" /\ run'.err = "ValueError" /\ run'.msg = SpeakerNotFound
            notEnough == pc' = "raised" /\ run'.err = "ValueError" /\ run'.msg = NotEnoughFiles
        IN  /\ t \notin DatasetKeys => notFound
            /\ t \in DatasetKeys =>
                 /\ notEnough <=> Len(DatasetFiles(t)) < n
                 /\ ~notFound
                 /\ Len(DatasetFiles(t)) >= n => (pc' = "enroll" /\ run'.err = "")
                 /\ (Len(DatasetFiles(t)) = 2 /\ config.num_enrollment_files = 3
                        /\ config.num_test_files = 2) => notEnough
    ]_vars

C13_Witness ==
    /\ pc = "raised"
    /\ run.target = "B"
    /\ Len(DatasetFiles(run.target)) = 2
    /\ config.num_enrollment_files = 3
    /\ config.num_test_files = 2
    /\ run.msg = NotEnoughFiles

\* run_attack got past the lookup of lines 133-140
Partitioned == pc \in {"enroll", "baseline", "attack", "done"} \/ (pc = "raised" /\ run.msg = "")

\* C14: run_attack splits the speaker's file list deterministically: the
\* enrollment set is exactly the first num_enrollment_files files, the baseline
\* set exactly the next num_test_files files, in list order; no list position is
\* in both, and the split is a function of the file list and the two counts.
C14_Partition ==
    Partitioned =>
        LET files == DatasetFiles(run.target)
            n_e == config.num_enrollment_files
            n_t == config.num_test_files
        IN  /\ run.enrollment_files = [i \in 1..n_e |-> files[i]]
            /\ run.test_files = [i \in 1..n_t |-> files[n_e + i]]
            /\ \A i \in 1..Len(run.enrollment_files), j \in 1..Len(run.test_files) :
                   run.enrollment_files[i] # run.test_files[j]

C14_Witness ==
    /\ pc = "baseline"
    /\ run.target = "A"
    /\ run.enrollment_files = <<"u.wav", "v.wav">>
    /\ run.test_files = <<"w.wav", "bad.wav">>

\* the results a returned run_attack hands back
ReturnedResults ==
    pc = "done" =>
        /\ DictHas(auth.enrolled_speakers, run.target)
        /\ run.enrollment_success =
               auth.enrolled_speakers[DictIndex(auth.enrolled_speakers, run.target)].enrolled
        /\ run.enrollment_success.t = "bool"
        /\ Len(run.real_test_results) = config.num_test_files
        /\ \A i \in 1..config.num_test_files :
               run.real_test_results[i].file = run.test_files[i]
        /\ Len(run.attack_results) = config.num_attack_files

\* while results are being recorded: nothing before enrollment, no attack result
\* before the last baseline result
ResultsInOrder ==
    /\ pc \in {"idle", "enroll"} => (run.real_test_results = <<>> /\ run.attack_results = <<>>)
    /\ run.real_test_results # <<>> => DictHas(auth.enrolled_speakers, run.target)
    /\ run.attack_results # <<>> => Len(run.real_test_results) = config.num_test_files

\* one step records at most one result, at the end of its sequence
ResultsAppended ==
    /\ run'.real_test_results # run.real_test_results =>
           /\ pc = "baseline"
           /\ run.attack_results = <<>> /\ run'.attack_results = <<>>
           /\ Len(run'.real_test_results) = Len(run.real_test_results) + 1
           /\ SubSeq(run'.real_test_results, 1, Len(run.real_test_results)) = run.real_test_results
    /\ run'.attack_results # run.attack_results =>
           /\ pc = "attack"
           /\ run'.real_test_results = run.real_test_results
           /\ Len(run'.attack_results) = Len(run.attack_results) + 1
           /\ SubSeq(run'.attack_results, 1, Len(run.attack_results)) = run.attack_results

\* C15: a run_attack that returns yields the enrollment flag and two ordered
\* sequences: real_test_results has exactly num_test_files entries, the i-th
\* tagged with the i-th test file's original path (not the path of its degraded
\* copy), attack_results has exactly num_attack_files entries in iteration order;
\* every baseline result is recorded after enrollment and before any attack
\* result.
C15_OrderedResults ==
    /\ [](ReturnedResults /\ ResultsInOrder)
    /\ [][ResultsAppended]_vars

C15_Witness ==
    /\ pc = "done"
    /\ config.environment = "line"
    /\ config.num_test_files = 2
    /\ config.num_attack_files = 2
    /\ run.real_test_results[2].file = "w.wav"
    /\ call.probe \in {"processed_" \o f : f \in Files}

\* run_attack ended with an exception that came out of a baseline or attack
\* sample: not out of the lookup, not out of the enrollment call
SampleFailureAborted ==
    /\ pc = "raised"
    /\ run.msg = ""
    /\ ~(call.op = "enroll_speaker" /\ ret.kind = "raise")

\* C16: a failure while processing one baseline or attack sample (channel
\* simulation, cloning engine, or backend comparison raising) is recorded as a
\* failed result and does not abort run_attack.
C16_SampleFailureRecorded == ~SampleFailureAborted

\* run_attack made its enrollment call, and no sample of it was usable
EnrollmentYieldedNothing ==
    /\ pc \notin {"idle", "enroll"}
    /\ run.msg = ""
    /\ IF IsLocal(verifier) THEN Extracted(run.enrollment_files) = <<>> ELSE remote = {}

\* C17: enrollment failure is fatal to the run: if enrolling the target speaker
\* yields zero usable samples, run_attack ends with the enrollment error,
\* evaluates no baseline sample and no attack sample, and never invokes the
\* cloning engine.
C17_EnrollmentFailureFatal ==
    EnrollmentYieldedNothing =>
        /\ pc = "raised"
        /\ call.op = "enroll_speaker"
        /\ ret.kind = "raise"
        /\ run.real_test_results = <<>>
        /\ run.attack_results = <<>>
        /\ run.cloner_refs = <<>>

\* the call in the state returned a result that carries a numeric score
ScoreReported ==
    /\ call.op \in {"verify", "identify"}
    /\ ret.kind = "return"
    /\ ret.val.t \in {"pair", "idpair"}

\* C18: no fabricated score is ever reported: every score in a verify/identify
\* result is the similarity computed between the probe and the stored profile;
\* when the probe's embedding cannot be extracted or no usable profile exists,
\* no result carries a substituted constant score.
C18_NoFabricatedScore ==
    ScoreReported =>
        /\ IsLocal(verifier)
        /\ verifier.enrollment_embedding # NoProfile
        /\ GetEmbedding(call.probe) # NoEmbedding
        /\ ret.val.score = ProbeSimilarity

\* the answer of the local backend in the state, had its threshold been t tenths
VerifyAt(t) == LocalVerify([verifier EXCEPT !.threshold = t], call.probe)

\* C19: threshold monotonicity: for the stored profile and the probe of a verify
\* call (hence one score), if verify rejects at threshold t1 then it rejects at
\* every threshold t2 >= t1, the threshold the call was made with included.
C19_ThresholdMonotone ==
    (built /\ call.op = "verify" /\ IsLocal(verifier)) =>
        /\ ret.val = VerifyAt(verifier.threshold)
        /\ \A t1 \in -11..11 : \A t2 \in t1..11 :
               /\ VerifyAt(t2).score = VerifyAt(t1).score
               /\ ~VerifyAt(t1).b => ~VerifyAt(t2).b

C19_Witness ==
    /\ LocalDecision
    /\ call.op = "verify"
    /\ verifier.threshold = 3
    /\ ret.val = PyPair(FALSE, FromTenths(3))
    /\ VerifyAt(2).b
    /\ ~VerifyAt(9).b

\* simulate ended, one way or the other, on a non-empty buffer
AirEnded == sim.pc \in {"done", "raised"} /\ sim.n > 0

\* C20: AirEnvironmentSimulator.simulate returns a buffer with exactly as many
\* samples as its input, for every non-empty input buffer and every sample rate,
\* with the default reflection delays.
C20_AirKeepsLength ==
    AirEnded => (sim.pc = "done" /\ sim.degraded = sim.n)

\* C21: simulate_environment with the predefined "phone" or "voip" profile
\* returns a buffer with exactly as many samples as its input, for every input
\* length, odd lengths included.
C21_LineKeepsLength ==
    (sim.pc = "done" /\ sim.op = "simulate_environment"
        /\ sim.config \in {PhoneConfig, VoipConfig}) =>
        sim.processed_audio = sim.n

\* the predefined names are always resolvable; a lookup that failed was given a
\* name the registry does not hold, and produced no output
RegistryState ==
    /\ {"phone", "voip"} \subseteq DOMAIN sim.environments
    /\ DOMAIN sim.environments \subseteq {"phone", "voip"} \cup {c.name : c \in AddedConfigs}
    /\ (sim.op = "simulate_environment" /\ sim.name \notin DOMAIN sim.environments) =>
           (sim.pc = "raised" /\ sim.err = "ValueError" /\ sim.processed_audio = 0)
    /\ (sim.op = "simulate_environment" /\ sim.name \in DOMAIN sim.environments) =>
           sim.config = sim.environments[sim.name]

\* one step: add_environment binds its name to its configuration and touches no
\* other name; the lookup of simulate_environment resolves exactly the names the
\* registry holds, to what it holds for them; no other step changes the registry
RegistryStep ==
    IF LineAtRest /\ sim'.op = "add_environment"
    THEN /\ DOMAIN sim'.environments = DOMAIN sim.environments \cup {sim'.name}
         /\ sim'.environments[sim'.name] = sim'.config
         /\ \A k \in DOMAIN sim.environments \ {sim'.name} :
                sim'.environments[k] = sim.environments[k]
    ELSE /\ sim'.environments = sim.environments
         /\ IF LineAtRest
            THEN /\ sim'.op = "simulate_environment"
                 /\ (sim'.pc # "raised") <=> (sim'.name \in DOMAIN sim.environments)
                 /\ sim'.pc # "raised" => sim'.config = sim.environments[sim'.name]
                 /\ sim'.pc = "raised" => sim'.err = "ValueError"
            ELSE sim'.config = sim.config /\ sim'.name = sim.name

\* C22: after any sequence of add_environment calls, simulate_environment
\* resolves a profile name exactly when the name is predefined ("phone", "voip")
\* or was registered by an earlier add_environment, and then uses the
\* configuration most recently registered under that name; any other name fails
\* with the unknown-environment error and produces no output.
C22_ProfileLookup ==
    /\ []RegistryState
    /\ [][RegistryStep]_vars

C22_Witness ==
    /\ sim.pc = "done"
    /\ sim.op = "simulate_environment"
    /\ sim.name = "phone"
    /\ sim.config = EnvironmentConfig("phone", 16000, 0, <<>>, 10)
    /\ "studio" \in DOMAIN sim.environments

\* cosine_similarity was called with a vector of zero norm, or with vectors of
\* different dimensionality
InvalidCosineInput ==
    /\ call.op = "cosine_similarity"
    /\ \/ Dot(sim.a, sim.a) = 0
       \/ Dot(sim.b, sim.b) = 0
       \/ Len(sim.a) # Len(sim.b)

\* C23: cosine_similarity(a, b) fails with an invalid-input error whenever either
\* vector has zero norm or the two vectors differ in dimensionality; it never
\* returns a value (NaN, a broadcast result) for such inputs.
C23_CosineRejectsInvalidInput ==
    InvalidCosineInput => ret.kind = "raise"

\* ClosedSetIdentification.identify returned, and its loop selected no candidate:
\* no roster entry is marked enrolled, or the score is not greater than -1.0
CSINoCandidate ==
    /\ auth.cls = "csi"
    /\ call.op = "identify"
    /\ auth.enrolled_speakers # <<>>
    /\ ret.kind = "return"
    /\ \/ \A i \in 1..Len(auth.enrolled_speakers) : ~Truthy(auth.enrolled_speakers[i].enrolled)
       \/ ~ScoreGT(ret.ans.score, FromTenths(-10))

\* C24: when ClosedSetIdentification.identify on a non-empty roster selects no
\* candidate, it returns the first id inserted in the roster with score exactly
\* 0.0, and that id is a speaker whose enrollment succeeded.
C24_CSIFallbackEnrolled ==
    CSINoCandidate =>
        /\ ret.val = PyIdPair(auth.enrolled_speakers[1].id, FromTenths(0))
        /\ Truthy(auth.enrolled_speakers[1].enrolled)

\* C25: in every attack iteration of run_attack, for either cloning engine, the
\* voice reference handed to the cloner is the full set of enrollment files:
\* every enrollment file is passed and no baseline test file is.
C25_ClonerGetsEnrollmentSet ==
    \A i \in 1..Len(run.cloner_refs) :
        /\ Range(run.cloner_refs[i]) = Range(run.enrollment_files)
        /\ Range(run.cloner_refs[i]) \cap Range(run.test_files) = {}

\* identify returned a speaker id together with a score the local backend
\* computed, on a roster with two or more successfully enrolled speakers
IdentifiedAmongSeveral ==
    /\ auth.cls \in {"csi", "osi"}
    /\ call.op = "identify"
    /\ LocalDecision
    /\ ret.kind = "return"
    /\ ret.val.s # NoSpeaker
    /\ ret.val.score = ProbeSimilarity
    /\ Cardinality({i \in 1..Len(auth.enrolled_speakers) :
                       Truthy(auth.enrolled_speakers[i].enrolled)}) >= 2

\* C26: after two or more speakers have been enrolled successfully, the speaker
\* id that identify returns is the id of the speaker whose profile the returned
\* score was computed against: the most recently enrolled speaker.
C26_IdentifiedIsProfileOwner ==
    IdentifiedAmongSeveral => ret.val.s = auth.profile_of

\* the step is an enroll call on a local backend that returned false
FailedLocalEnrollStep ==
    /\ IsLocal(verifier)
    /\ call'.op \in {"enroll", "enroll_speaker"}
    /\ ~Truthy(ret'.val)

\* C27: a failed enroll (zero usable samples) on a local backend leaves the
\* stored profile unchanged: verify answers every probe as before the call,
\* although the call returned false and the roster entry it wrote is marked
\* unenrolled.
C27_FailedEnrollKeepsProfile ==
    [][FailedLocalEnrollStep =>
        /\ ret'.val = PyBool(FALSE)
        /\ verifier'.enrollment_embedding = verifier.enrollment_embedding
        /\ \A probe \in Files : LocalVerify(verifier', probe) = LocalVerify(verifier, probe)
        /\ call'.op = "enroll_speaker" =>
             /\ DictHas(auth'.enrolled_speakers, call'.id)
             /\ ~Truthy(auth'.enrolled_speakers[DictIndex(auth'.enrolled_speakers, call'.id)].enrolled)
             /\ auth'.profile_of = auth.profile_of
    ]_vars

\* an earlier enrollment of A succeeded, a later one failed and marked A
\* unenrolled, and the backend still accepts a probe against A's profile
C27_Witness ==
    /\ auth.cls = "csi"
    /\ call.op = "identify"
    /\ LocalDecision
    /\ auth.profile_of = "A"
    /\ auth.enrolled_speakers = <<[id |-> "A", enrolled |-> PyBool(FALSE)]>>
    /\ ret.ans = PyPair(TRUE, ProbeSimilarity)

====
